---------------------------- MODULE Spec2Model ----------------------------
(***************************************************************************)
(* Teensy 4.1 data logger (teensy41-datalogger.ino).                       *)
(*                                                                         *)
(* The sketch is a single control loop: loop() reads the microsecond       *)
(* clock and the START_SIG trigger, switches record_daq_data, calls        *)
(* StoreDataSDCard() from the else-branch of the trigger test and, while   *)
(* recording, formats one sample record into psram at memptr whenever the  *)
(* sample period has elapsed.  One step of the model is one call of        *)
(* loop(), or one turn of the no-card loop inside StoreDataSDCard().       *)
(*                                                                         *)
(* Bytes are modelled by their character codes (48..57 digits, 44 comma,   *)
(* 10 newline, 0 the terminator written by sprintf).                       *)
(***************************************************************************)
EXTENDS Integers, Sequences, FiniteSets, TLC

\* ------------------------------------------------------------------------
\* Program constants
\* ------------------------------------------------------------------------

\* #define SAMPLE_PERIOD_USEC (400UL)
SAMPLE_PERIOD_USEC == 400

\* micros() and unsigned long are 32 bits wide on the Teensy 4.1.  A 32-bit
\* value is held as the pair <<high half, low half>> of 16-bit halves.
Half == 256 * 256

\* Arduino levels returned by digitalRead
HIGH == 1
LOW == 0

\* Wire.read() returns -1 when the receive buffer holds no more bytes
NoData == -1

\* sizeof(filename) in StoreDataSDCard
FILENAME_SIZE == 16

\* The header line written by dataFile.println
HeaderLine == "time_usec,flywheel_count,flywheel_direction,starter_pwr_k15,starter_current,fuel_htr_current,starter_housing_strain"

\* ------------------------------------------------------------------------
\* 32-bit unsigned arithmetic
\* ------------------------------------------------------------------------

\* Conversion of an int to unsigned long (two's complement for negatives)
IntToU32(x) ==
  IF x >= 0 THEN <<x \div Half, x % Half>>
  ELSE <<(Half - 1) - ((-x - 1) \div Half), (Half - 1) - ((-x - 1) % Half)>>

\* a + b in unsigned long arithmetic
AddU32(a, b) ==
  LET lo == a[2] + b[2]
      hi == a[1] + b[1] + (lo \div Half)
  IN  <<hi % Half, lo % Half>>

\* a - b in unsigned long arithmetic
SubU32(a, b) ==
  LET lo == a[2] - b[2]
      hi == (a[1] - b[1]) - (IF lo < 0 THEN 1 ELSE 0)
  IN  <<(hi + Half) % Half, (lo + Half) % Half>>

\* a >= b, a < b on unsigned long
GeU32(a, b) == (a[1] > b[1]) \/ ((a[1] = b[1]) /\ (a[2] >= b[2]))
LtU32(a, b) == ~GeU32(a, b)

RECURSIVE BitOr(_, _)
\* Bitwise OR of two naturals
BitOr(a, b) ==
  IF a = 0 THEN b
  ELSE IF b = 0 THEN a
  ELSE (IF (a % 2 = 1) \/ (b % 2 = 1) THEN 1 ELSE 0) + 2 * BitOr(a \div 2, b \div 2)

\* a | b on unsigned long
OrU32(a, b) == <<BitOr(a[1], b[1]), BitOr(a[2], b[2])>>

RECURSIVE Pow2(_)
Pow2(k) == IF k = 0 THEN 1 ELSE 2 * Pow2(k - 1)

\* int << k, the int result then converted to unsigned long
ShlU32(v, k) == IntToU32(v * Pow2(k))

\* ------------------------------------------------------------------------
\* Bounds of the model
\* ------------------------------------------------------------------------

\* Capacity of psram in bytes.  The sketch uses 1024*1024*8; the model keeps
\* the arena small enough to hold two records, so that the third crosses
\* the end.
EXTERNAL_MEM_SIZE == 79

\* Number of loop() calls explored
MaxTicks == 5

\* Distance in microseconds of the late boot time from the clock wrap
BootLead == 1100

\* Content of a byte nobody has written yet (psram is EXTMEM and is not
\* initialised), and of a byte read beyond the end of the array
StaleByte == 88

\* ------------------------------------------------------------------------
\* printf conversions
\* ------------------------------------------------------------------------

RECURSIVE Digits(_)
\* Decimal digits of a natural, most significant first (%u, %lu)
Digits(n) == IF n < 10 THEN <<48 + n>> ELSE Digits(n \div 10) \o <<48 + (n % 10)>>

RECURSIVE DigitsU32(_)
\* Decimal digits of an unsigned long (%lu), by long division by ten
DigitsU32(a) ==
  IF a[1] = 0 THEN Digits(a[2])
  ELSE LET mid == (a[1] % 10) * Half + a[2]
       IN  DigitsU32(<<a[1] \div 10, mid \div 10>>) \o <<48 + (mid % 10)>>

\* %.<w>u / %0<w>d: at least w digits, padded on the left with '0'
ZeroPad(s, w) == IF Len(s) >= w THEN s ELSE [i \in 1..(w - Len(s)) |-> 48] \o s

\* Mutant: the first two sprintf arguments in the wrong order
FormatRecord_Swapped(time_usec, count, dir, k15, cur, fuel, strain) ==
  ZeroPad(DigitsU32(count), 10) \o <<44>> \o
  ZeroPad(DigitsU32(time_usec), 8) \o <<44>> \o
  Digits(dir) \o <<44>> \o
  Digits(k15) \o <<44>> \o
  ZeroPad(Digits(cur), 4) \o <<44>> \o
  ZeroPad(Digits(fuel), 4) \o <<44>> \o
  ZeroPad(Digits(strain), 4) \o <<10>>

\* "%.10lu,%.8lu,%u,%u,%.4u,%.4u,%.4u\n"
FormatRecord(time_usec, count, dir, k15, cur, fuel, strain) ==
  ZeroPad(DigitsU32(time_usec), 10) \o <<44>> \o
  ZeroPad(DigitsU32(count), 8) \o <<44>> \o
  Digits(dir) \o <<44>> \o
  Digits(k15) \o <<44>> \o
  ZeroPad(Digits(cur), 4) \o <<44>> \o
  ZeroPad(Digits(fuel), 4) \o <<44>> \o
  ZeroPad(Digits(strain), 4) \o <<10>>

\* snprintf(filename, sizeof(filename), "LOG_%04d.txt", n): at most
\* sizeof(filename) - 1 characters are kept
FileName(n) ==
  LET full == <<76, 79, 71, 95>> \o ZeroPad(Digits(n), 4) \o <<46, 116, 120, 116>>
  IN  IF Len(full) > FILENAME_SIZE - 1 THEN SubSeq(full, 1, FILENAME_SIZE - 1) ELSE full

\* ------------------------------------------------------------------------
\* read_S35770_Counter
\* ------------------------------------------------------------------------

\* ext_counter = Wire.read() << 16; ext_counter |= Wire.read() << 8;
\* ext_counter |= Wire.read();   wire is the triple of Wire.read() results.
read_S35770_Counter(wire) ==
  OrU32(OrU32(ShlU32(wire[1], 16), ShlU32(wire[2], 8)), IntToU32(wire[3]))

\* ------------------------------------------------------------------------
\* Environment inputs
\* ------------------------------------------------------------------------

Level == {LOW, HIGH}

\* Time between two successive calls of loop(), in microseconds
TickSteps == {SAMPLE_PERIOD_USEC \div 2, SAMPLE_PERIOD_USEC}

\* Values of micros() when setup() runs
BootTimes == {IntToU32(0), IntToU32(-BootLead)}

StrayBytes == {0, StaleByte}

\* The files on the card at power-on: earlier logs, with a gap where one
\* was deleted
CardFiles == {FileName(0), FileName(2)}

\* What the inputs deliver when a sample is taken: the three Wire.read()
\* results, the two digital lines and the three 10-bit analog channels.
SampleInputs ==
  { [wire |-> <<255, 0, 1>>, dir |-> 1, k15 |-> 0, cur |-> 1023, fuel |-> 0, strain |-> 512],
    [wire |-> <<7, NoData, NoData>>, dir |-> 0, k15 |-> 1, cur |-> 0, fuel |-> 1023, strain |-> 512] }

\* The inputs of a call of loop() that takes no sample (none is read)
NoInputs == [wire |-> <<0, 0, 0>>, dir |-> 0, k15 |-> 0, cur |-> 0, fuel |-> 0, strain |-> 0]

\* ------------------------------------------------------------------------
\* State
\* ------------------------------------------------------------------------

VARIABLES
  record_daq_data,  \* bool record_daq_data
  memptr,           \* int memptr
  char_count,       \* int char_count
  last_time_usec,   \* unsigned long last_time_usec
  psram,            \* char psram[EXTERNAL_MEM_SIZE], indexed from 0
  pc,               \* "loop": between two calls of loop(); "nocard": inside while (1)
  serial,           \* the last line sent to the serial port
  now,              \* what micros() returns at the next call of loop()
  sd_present,       \* whether SD.begin succeeds
  sd_files,         \* names of the files on the card
  dataFile,         \* the file written by the last StoreDataSDCard
  ev,               \* what the last call of loop() did
  hist,             \* counts over the whole run
  ep,               \* the current and the last completed recording episode;
                    \* ep.text is every record appended since it was entered
  nocard_msgs       \* parity of the number of "no-card detected" lines sent

vars == <<record_daq_data, memptr, char_count, last_time_usec, psram, pc, serial,
          now, sd_present, sd_files, dataFile, ev, hist, ep, nocard_msgs>>

\* Marks a digitalRead that the call of loop() did not perform (no level)
NoRead == HIGH + 1

\* The arena and the two cells just past it that the drain can read
Arena == 0..(EXTERNAL_MEM_SIZE - 1)
PastArena == EXTERNAL_MEM_SIZE..(EXTERNAL_MEM_SIZE + 1)

\* ------------------------------------------------------------------------
\* The pieces of loop() and StoreDataSDCard()
\* ------------------------------------------------------------------------

\* Mutant: the start test with the trigger polarity inverted
StartDetected_ActiveLow(rec, t1) == (rec = FALSE) /\ (t1 = LOW)

\* if ((record_daq_data == false) && (digitalRead(START_SIG) == HIGH))
StartDetected(rec, t1) == (rec = FALSE) /\ (t1 = HIGH)

\* memptr = 0; // Reset the psram memory pointer   (only when recording starts)
CursorAfterTrigger(start, mp) == IF start THEN 0 ELSE mp

\* Mutant: the stop test with the trigger polarity inverted
StopDetected_ActiveHigh(t2) == t2 = HIGH

\* else { if (digitalRead(START_SIG) == LOW)
StopDetected(t2) == t2 = LOW

\* Mutant: the due test without the record_daq_data conjunct
SampleDue_AnyState(rec, time_usec, last) ==
  GeU32(time_usec, AddU32(last, IntToU32(SAMPLE_PERIOD_USEC)))

\* record_daq_data == true && (time_usec >= (last_time_usec + SAMPLE_PERIOD_USEC))
\* in unsigned long arithmetic
SampleDue(rec, time_usec, last) ==
  (rec = TRUE) /\ GeU32(time_usec, AddU32(last, IntToU32(SAMPLE_PERIOD_USEC)))

\* sprintf(&psram[at], ...): the text and its terminating 0 are stored from
\* offset at; a store beyond the array does not reach the arena
Sprintf(mem, at, text) ==
  [i \in DOMAIN mem |->
     IF (i >= at) /\ (i < at + Len(text)) THEN text[i - at + 1]
     ELSE IF i = at + Len(text) THEN 0
     ELSE mem[i]]

\* memptr = memptr + char_count; if ((memptr-1) > EXTERNAL_MEM_SIZE) memptr = 0;
AdvanceCursor(mp, count, capacity) ==
  IF (mp + count) - 1 > capacity THEN 0 ELSE mp + count

RECURSIVE ProbeName(_, _)
\* while (SD.exists(filename)) { n++; snprintf(...); }
ProbeName(files, n) == IF FileName(n) \in files THEN ProbeName(files, n + 1) ELSE n

\* Mutant: the number of files on the card taken as the next free number
NextFileNumber_Count(files) == Cardinality(files)

\* int n = 0; snprintf(...); while (SD.exists(filename)) ...
NextFileNumber(files) == ProbeName(files, 0)

\* for (int i=0;i<=memptr;i++) dataFile.print(psram[i]);
\* past maps the cells beyond the array to what a read of them returns
DrainBytes(mem, mp, past) ==
  [k \in 1..(mp + 1) |-> IF (k - 1) \in DOMAIN mem THEN mem[k - 1] ELSE past[k - 1]]

\* ------------------------------------------------------------------------
\* Initial state: setup() has returned
\* ------------------------------------------------------------------------

NoEvent ==
  [start_rec |-> FALSE, t1 |-> NoRead, t2 |-> NoRead, entered |-> FALSE,
   drained |-> FALSE, created |-> FALSE, sampled |-> FALSE, wrapped |-> FALSE,
   halted |-> FALSE, rec_mid |-> FALSE, time_usec |-> IntToU32(0),
   last_before |-> IntToU32(0),
   memptr_before |-> 0, memptr_mid |-> 0, had_sample |-> FALSE, gap |-> 0,
   wire |-> <<0, 0, 0>>, count |-> IntToU32(0)]

Init ==
  /\ record_daq_data = FALSE
  /\ memptr = 0
  /\ char_count = 0
  /\ now \in BootTimes
  /\ last_time_usec = AddU32(now, IntToU32(SAMPLE_PERIOD_USEC))
  /\ \E b \in StrayBytes : psram = [i \in Arena |-> b]
  /\ pc = "loop"
  /\ serial = ""
  /\ sd_present \in BOOLEAN
  /\ sd_files = (IF sd_present THEN CardFiles ELSE {})
  /\ dataFile = [n |-> -1, name |-> <<>>, existed |-> FALSE, header |-> "", data |-> <<>>]
  /\ ev = NoEvent
  /\ hist = [ticks |-> 0, prev_read |-> LOW, split |-> FALSE, rising |-> 0, entries |-> 0,
             exits |-> 0, drains |-> 0, files |-> 0, appends |-> 0, wraps |-> 0,
             elapsed |-> 0, last_sample |-> -1, alloc |-> <<>>, pass_clock_ok |-> TRUE,
             clock_wrapped |-> FALSE]
  /\ ep = [open |-> FALSE, start |-> 0, count |-> 0, clean |-> TRUE,
           done |-> FALSE, D |-> 0, records |-> 0, done_clean |-> TRUE,
           text |-> <<>>]
  /\ nocard_msgs = 0


\* ------------------------------------------------------------------------
\* loop()
\* ------------------------------------------------------------------------

\* The record that sprintf formats from the inputs of a sample
SampleText(time_usec, inp) ==
  FormatRecord(time_usec, read_S35770_Counter(inp.wire), inp.dir, inp.k15,
               inp.cur, inp.fuel, inp.strain)

\* One call of loop().  t1 and t2 are what the two digitalRead(START_SIG)
\* calls return when they are performed (the first only while
\* record_daq_data is false, the second only in the else-branch), dt is the
\* time until the next call, inp what the inputs deliver when a sample is
\* taken and text the record formatted from it, past what a read beyond the
\* end of psram returns.
LoopBody(t1, t2, dt, inp, text, past) ==
  LET time_usec == now
      start     == StartDetected(record_daq_data, t1)
      stop      == (~start) /\ StopDetected(t2)
      t1r       == t1
      t2r       == t2
      reading   == IF start THEN t1 ELSE t2
      \* StoreDataSDCard(), called after record_daq_data = false
      halted    == stop /\ ~sd_present
      n         == NextFileNumber(sd_files)
      file      == [n |-> n, name |-> FileName(n), existed |-> FileName(n) \in sd_files,
                    header |-> HeaderLine, data |-> DrainBytes(psram, memptr, past)]
      created   == stop /\ sd_present
      \* the trigger branch
      rec_mid   == IF start THEN TRUE ELSE IF stop THEN FALSE ELSE record_daq_data
      mp_mid    == CursorAfterTrigger(start, memptr)
      \* the sample branch
      due       == (~halted) /\ SampleDue(rec_mid, time_usec, last_time_usec)
      mp_end    == IF due THEN AdvanceCursor(mp_mid, Len(text), EXTERNAL_MEM_SIZE) ELSE mp_mid
      wrapped   == due /\ (mp_end = 0)
      \* bookkeeping
      exited    == record_daq_data /\ ~rec_mid
      elapsed   == hist.elapsed
      rise      == (reading = HIGH) /\ (hist.prev_read = LOW)
      backwards == LtU32(time_usec, ev.time_usec)
  IN
  /\ record_daq_data' = rec_mid
  /\ memptr' = mp_end
  /\ char_count' = IF due THEN Len(text) ELSE char_count
  /\ last_time_usec' = IF due THEN time_usec ELSE last_time_usec
  /\ psram' = IF due THEN Sprintf(psram, mp_mid, text) ELSE psram
  /\ pc' = IF halted THEN "nocard" ELSE "loop"
  /\ serial' = IF halted THEN "Card failed, or not present"
               ELSE IF created THEN "Data Aquired!" ELSE serial
  /\ now' = IF halted THEN now ELSE AddU32(now, IntToU32(dt))
  /\ sd_present' = sd_present
  /\ sd_files' = IF created THEN sd_files \cup {file.name} ELSE sd_files
  /\ dataFile' = IF created THEN file ELSE dataFile
  /\ ev' = [start_rec |-> record_daq_data, t1 |-> t1r, t2 |-> t2r, entered |-> start,
            drained |-> stop, created |-> created, sampled |-> due, wrapped |-> wrapped,
            halted |-> halted, rec_mid |-> rec_mid, time_usec |-> time_usec,
            last_before |-> last_time_usec, memptr_before |-> memptr,
            memptr_mid |-> mp_mid,
            had_sample |-> hist.last_sample >= 0,
            gap |-> IF hist.last_sample >= 0 THEN elapsed - hist.last_sample ELSE 0,
            wire |-> inp.wire,
            count |-> read_S35770_Counter(inp.wire)]
  /\ hist' = [ticks |-> hist.ticks + 1,
              prev_read |-> reading,
              split |-> hist.split \/ ((t1r = LOW) /\ (t2r = HIGH)),
              rising |-> hist.rising + (IF rise THEN 1 ELSE 0),
              entries |-> hist.entries + (IF start THEN 1 ELSE 0),
              exits |-> hist.exits + (IF exited THEN 1 ELSE 0),
              drains |-> hist.drains + (IF stop THEN 1 ELSE 0),
              files |-> hist.files + (IF created THEN 1 ELSE 0),
              appends |-> hist.appends + (IF due THEN 1 ELSE 0),
              wraps |-> hist.wraps + (IF wrapped THEN 1 ELSE 0),
              elapsed |-> IF halted THEN elapsed ELSE elapsed + dt,
              last_sample |-> IF due THEN elapsed ELSE hist.last_sample,
              alloc |-> IF created THEN Append(hist.alloc, n) ELSE hist.alloc,
              pass_clock_ok |-> start \/ wrapped \/ (hist.pass_clock_ok /\ ~backwards),
              clock_wrapped |-> hist.clock_wrapped \/ backwards]
  /\ nocard_msgs' = nocard_msgs
  /\ ep' = IF start
             THEN [ep EXCEPT !.open = TRUE, !.start = elapsed,
                             !.count = IF due THEN 1 ELSE 0, !.clean = ~wrapped,
                             !.text = IF due THEN text ELSE <<>>]
           ELSE IF exited
             THEN [ep EXCEPT !.open = FALSE, !.done = TRUE, !.D = elapsed - ep.start,
                             !.records = ep.count, !.done_clean = ep.clean /\ ~backwards]
           ELSE IF ep.open
             THEN [ep EXCEPT !.count = ep.count + (IF due THEN 1 ELSE 0),
                             !.clean = ep.clean /\ (~wrapped) /\ (~backwards),
                             !.text = IF due THEN ep.text \o text ELSE ep.text]
           ELSE ep

\* Whether the call of loop() with these reads takes a sample
WillSample(t1, t2) ==
  LET start == StartDetected(record_daq_data, t1)
      stop  == (~start) /\ StopDetected(t2)
  IN  /\ ~(stop /\ ~sd_present)
      /\ SampleDue(IF start THEN TRUE ELSE IF stop THEN FALSE ELSE record_daq_data,
                   now, last_time_usec)

\* Whether the call of loop() with these reads drains cells beyond psram
WillReadPast(t1, t2) ==
  /\ ~StartDetected(record_daq_data, t1)
  /\ StopDetected(t2)
  /\ memptr >= EXTERNAL_MEM_SIZE

\* The inputs are drawn only when the code reads them: the first
\* digitalRead is short-circuited while recording, the second belongs to the
\* else-branch.
loop ==
  /\ pc = "loop"
  /\ hist.ticks < MaxTicks
  /\ \E t1 \in (IF record_daq_data = FALSE THEN Level ELSE {NoRead}) :
     \E t2 \in (IF StartDetected(record_daq_data, t1) THEN {NoRead} ELSE Level) :
     \E dt \in TickSteps :
     \E inp \in (IF WillSample(t1, t2) THEN SampleInputs ELSE {NoInputs}) :
     \E past \in (IF WillReadPast(t1, t2) THEN [PastArena -> StrayBytes]
                                          ELSE {[i \in PastArena |-> 0]}) :
     \E text \in {SampleText(now, inp)} :
       LoopBody(t1, t2, dt, inp, text, past)

\* Mutant: the no-card loop reports once and returns to the caller
no_card_loop_Returns ==
  /\ pc = "nocard"
  /\ serial' = "no-card detected"
  /\ nocard_msgs' = 1 - nocard_msgs
  /\ pc' = "loop"
  /\ UNCHANGED <<record_daq_data, memptr, char_count, last_time_usec, psram, now,
                 sd_present, sd_files, dataFile, ev, hist, ep>>

\* while (1) { Serial.println("no-card detected"); }   one iteration
no_card_loop ==
  /\ pc = "nocard"
  /\ serial' = "no-card detected"
  /\ nocard_msgs' = 1 - nocard_msgs
  /\ UNCHANGED <<record_daq_data, memptr, char_count, last_time_usec, psram, pc, now,
                 sd_present, sd_files, dataFile, ev, hist, ep>>

Next == loop \/ no_card_loop

Spec == Init /\ [][Next]_vars

\* The same program under the scheduling the processor gives it: while (1)
\* has no exit and no blocking call, so its next iteration always comes
FairSpec == Spec /\ WF_vars(no_card_loop)

\* ------------------------------------------------------------------------
\* The cursor of one episode at the size of the real psram
\* ------------------------------------------------------------------------

\* #define SAMPLE_RATE (2500)
SAMPLE_RATE == 2500

\* // 8MByte (1024*1024*8)/97,500 =~ 86s of psram record time
RecordSeconds == 86

\* Mutant: a 1 MByte part taken for the 8 MByte one
EXTERNAL_MEM_SIZE_1M == 1024 * 1024

\* #define EXTERNAL_MEM_SIZE (1024*1024*8), the size the program is built with
EXTERNAL_MEM_SIZE_8M == 1024 * 1024 * 8

\* The record of a sample whose counter read delivered three bytes: 10 + 8 +
\* 1 + 1 + 4 + 4 + 4 digits, six commas and the newline
NominalRecord == FormatRecord(IntToU32(0), IntToU32(0), 0, 0, 0, 0, 0)

\* The state right after a call of loop() has entered Recording at time 0,
\* card present
EpisodeEntered ==
  /\ record_daq_data = TRUE
  /\ memptr = 0
  /\ char_count = 0
  /\ now = IntToU32(SAMPLE_PERIOD_USEC)
  /\ last_time_usec = IntToU32(SAMPLE_PERIOD_USEC)
  /\ psram = [i \in Arena |-> 0]
  /\ pc = "loop"
  /\ serial = ""
  /\ sd_present = TRUE
  /\ sd_files = CardFiles
  /\ dataFile = [n |-> -1, name |-> <<>>, existed |-> FALSE, header |-> "", data |-> <<>>]
  /\ ev = [NoEvent EXCEPT !.t1 = HIGH, !.entered = TRUE, !.rec_mid = TRUE]
  /\ hist = [ticks |-> 1, prev_read |-> HIGH, split |-> FALSE, rising |-> 1, entries |-> 1,
             exits |-> 0, drains |-> 0, files |-> 0, appends |-> 0, wraps |-> 0,
             elapsed |-> SAMPLE_PERIOD_USEC, last_sample |-> -1, alloc |-> <<>>,
             pass_clock_ok |-> TRUE, clock_wrapped |-> FALSE]
  /\ ep = [open |-> TRUE, start |-> 0, count |-> 0, clean |-> TRUE,
           done |-> FALSE, D |-> 0, records |-> 0, done_clean |-> TRUE,
           text |-> <<>>]
  /\ nocard_msgs = 0

\* The cursor part of one append of a nominal record, lines 226-230 with
\* EXTERNAL_MEM_SIZE at its real value, until the cursor is first taken back
\* to 0.  The bytes stored and the time of the sample are left out.
append_record ==
  /\ pc = "loop"
  /\ record_daq_data = TRUE
  /\ hist.wraps = 0
  /\ char_count' = Len(NominalRecord)
  /\ memptr' = AdvanceCursor(memptr, char_count', EXTERNAL_MEM_SIZE_8M)
  /\ hist' = [hist EXCEPT !.appends = @ + 1,
                          !.wraps = @ + (IF memptr' = 0 THEN 1 ELSE 0)]
  /\ ep' = [ep EXCEPT !.count = @ + 1, !.clean = (memptr' # 0)]
  /\ UNCHANGED <<record_daq_data, last_time_usec, psram, pc, serial, now, sd_present,
                 sd_files, dataFile, ev, nocard_msgs>>

FillNext == append_record

FillSpec == EpisodeEntered /\ [][FillNext]_vars

\* ------------------------------------------------------------------------
\* Properties
\* ------------------------------------------------------------------------

\* A call of loop() has happened and ev describes it
Ticked == hist.ticks > 0

\* C1 (as claimed): StoreDataSDCard is invoked on a call of loop() exactly
\* when the call starts in Recording and the trigger reads low, so that, as
\* long as the card works, the number of files created equals the number of
\* Recording-to-Idle transitions.
C1_DrainOnlyOnExit ==
  /\ Ticked => (ev.drained <=> (ev.start_rec /\ (ev.t2 = LOW)))
  /\ (pc = "loop") => (hist.files = hist.exits)

\* C2: when every call of loop() sees one trigger level (its two reads
\* agree), the number of Idle-to-Recording transitions equals the number of
\* rising edges of the readings, and a call that enters Recording leaves the
\* cursor at 0, or at the length of the one record it appended at offset 0.
C2_EntriesAreRisingEdges ==
  /\ (~hist.split) => (hist.entries = hist.rising)
  /\ (Ticked /\ ev.entered) =>
       /\ ev.memptr_mid = 0
       /\ memptr = (IF ev.sampled THEN char_count ELSE 0)

\* C2 witness: a second episode has just been entered after a first one that
\* left samples in the buffer, and the cursor was taken back to 0.
C2_Witness ==
  /\ ~hist.split
  /\ hist.entries = 2
  /\ hist.rising = 2
  /\ ev.entered
  /\ ev.memptr_before > 0
  /\ ev.memptr_mid = 0

\* C3 (as claimed): without a working card no sample record is ever appended.
C3_NoAcquisitionWithoutCard ==
  (~sd_present) => (hist.appends = 0)

\* C4 (as claimed): the file written by a drain holds, after the header,
\* exactly the memptr bytes psram[0] .. psram[memptr-1].
C4_DrainWritesExactlyM ==
  (Ticked /\ ev.created) =>
     /\ dataFile.header = HeaderLine
     /\ dataFile.data = [k \in 1..ev.memptr_before |-> psram[k - 1]]

\* C5 (as claimed): between calls of loop() the cursor is within 0..capacity.
C5_CursorWithinCapacity ==
  (0 <= memptr) /\ (memptr <= EXTERNAL_MEM_SIZE)

\* The program variables that a sample append without overflow leaves alone.
\* psram, memptr, char_count and last_time_usec are written by every append
\* (and memptr = 0 is also the cursor of a freshly entered episode), so an
\* overflow record would have to show in one of the others.
OverflowRecord == <<record_daq_data, pc, serial>>

\* C6 (as claimed): an append that takes the cumulative size beyond the
\* capacity wraps the cursor to 0 and changes the program's overflow record.
C6_OverflowObservable ==
  [][ (ev'.sampled /\ (hist'.appends > hist.appends)
         /\ (ev'.memptr_mid + char_count' > EXTERNAL_MEM_SIZE))
      => ((memptr' = 0) /\ (OverflowRecord' # OverflowRecord)) ]_vars

\* C7 (as claimed): once a sample has been taken, the due decision of a call
\* of loop() in Recording equals the wrap-safe test
\* (time_usec - last_time_usec) mod 2^32 >= SAMPLE_PERIOD_USEC, and no sample
\* is taken less than one period after the previous one.
C7_WrapSafeDue ==
  (Ticked /\ ev.rec_mid /\ ev.had_sample) =>
     /\ ev.sampled <=>
          GeU32(SubU32(ev.time_usec, ev.last_before), IntToU32(SAMPLE_PERIOD_USEC))
     /\ ev.sampled => (ev.gap >= SAMPLE_PERIOD_USEC)

\* C8 (as claimed): an episode of D microseconds without clock or buffer wrap
\* appends floor(D / P) records, give or take one, and exactly 10 for D = 10*P.
C8_RecordsPerEpisode ==
  (ep.done /\ ep.done_clean) =>
     /\ ep.records >= (ep.D \div SAMPLE_PERIOD_USEC) - 1
     /\ ep.records <= (ep.D \div SAMPLE_PERIOD_USEC) + 1
     /\ (ep.D = 10 * SAMPLE_PERIOD_USEC) => (ep.records = 10)

RECURSIVE NextNewline(_, _, _)
\* The offset of the first newline in mem[i .. lim-1], or lim
NextNewline(mem, i, lim) ==
  IF i >= lim THEN lim
  ELSE IF mem[i] = 10 THEN i
  ELSE NextNewline(mem, i + 1, lim)

RECURSIVE Stamps(_, _, _)
\* The ten time_usec digits of each record lying in mem[i .. lim-1], in
\* buffer order
Stamps(mem, i, lim) ==
  IF i + 10 > lim THEN <<>>
  ELSE <<[k \in 1..10 |-> mem[i + k - 1]]>> \o
       (IF NextNewline(mem, i, lim) >= lim THEN <<>>
        ELSE Stamps(mem, NextNewline(mem, i, lim) + 1, lim))

\* Numeric order of two strings of ten decimal digits
DigitsLess(a, b) ==
  \E k \in 1..10 : (a[k] < b[k]) /\ (\A j \in 1..(k - 1) : a[j] = b[j])

\* The timestamps of the records at offsets 0..memptr that lie in the arena
BufferStamps ==
  Stamps(psram, 0, IF memptr < EXTERNAL_MEM_SIZE THEN memptr ELSE EXTERNAL_MEM_SIZE)

StampsIncrease ==
  \A i, j \in 1..Len(BufferStamps) : (i < j) => DigitsLess(BufferStamps[i], BufferStamps[j])

\* C9 (as claimed): the records at offsets 0..memptr are in strictly
\* increasing time_usec order, whatever the clock did.
C9_StampsAlwaysIncrease == StampsIncrease

\* C9 (amended): the records at offsets 0..memptr are in strictly increasing
\* time_usec order as long as the 32-bit clock has not wrapped since the
\* cursor was last set to 0.
C9_StampsIncreaseWithoutClockWrap == hist.pass_clock_ok => StampsIncrease

\* C9 witness: two records of one episode lie in the buffer, the first with
\* the smaller time_usec.
C9_Witness ==
  /\ hist.pass_clock_ok
  /\ record_daq_data
  /\ ev.sampled
  /\ Len(BufferStamps) = 2
  /\ DigitsLess(BufferStamps[1], BufferStamps[2])

\* C10: the file a drain creates has the smallest number n >= 0 whose name
\* was not on the card, the name was not on the card before, and the numbers
\* allocated by successive drains are strictly increasing.
C10_SmallestFreeNumber ==
  /\ (Ticked /\ ev.created) =>
       /\ dataFile.name = FileName(dataFile.n)
       /\ dataFile.name \in sd_files
       /\ ~dataFile.existed
       /\ \A k \in 0..(dataFile.n - 1) : FileName(k) \in (sd_files \ {dataFile.name})
  /\ \A i, j \in 1..Len(hist.alloc) : (i < j) => (hist.alloc[i] < hist.alloc[j])

\* C10 witness: on a card holding files 0 and 2, two drains have allocated
\* 1 and then 3.
C10_Witness ==
  /\ ev.created
  /\ hist.alloc = <<1, 3>>
  /\ dataFile.n = 3

\* s is the beginning of t
IsPrefix(s, t) == (Len(s) <= Len(t)) /\ (SubSeq(t, 1, Len(s)) = s)

\* C11 (as claimed): when a call of loop() ends a recording episode and
\* StoreDataSDCard writes its file, the file holds, after the header, every
\* record appended since the episode was entered, in the order of the
\* appends, also when the cursor was taken back to 0 during the episode.
C11_FileHoldsWholeEpisode ==
  (Ticked /\ ev.start_rec /\ ev.created) => IsPrefix(ep.text, dataFile.data)

\* C12: once StoreDataSDCard has found that SD.begin failed, the program
\* stays inside while (1) for ever: record_daq_data, memptr, psram, the files
\* on the card and the counts of appends and of files never change again,
\* and "no-card detected" is sent again and again.
C12_NoCardLoopForever ==
  /\ [][ (pc = "nocard") =>
           /\ pc' = "nocard"
           /\ UNCHANGED <<record_daq_data, memptr, psram, sd_files, dataFile, hist>> ]_vars
  /\ ((pc = "nocard") /\ (nocard_msgs = 0)) ~> (nocard_msgs = 1)
  /\ ((pc = "nocard") /\ (nocard_msgs = 1)) ~> (nocard_msgs = 0)

\* C12 witness: inside the no-card loop at the end of an episode that had
\* appended a record, with the message already sent twice
C12_Witness ==
  /\ pc = "nocard"
  /\ serial = "no-card detected"
  /\ nocard_msgs = 0
  /\ ev.start_rec
  /\ memptr > 0

\* C13: no call of loop() both enters Recording (record_daq_data set, memptr
\* taken to 0) and calls StoreDataSDCard: the stop test is in the else-branch
\* of the start test.  A call that enters leaves record_daq_data true and
\* drains nothing; a later call that finds record_daq_data true drains
\* exactly once when it reads the trigger low, and not at all when it reads
\* it high.
C13_EntryAndDrainExclusive ==
  [][ (hist'.ticks > hist.ticks) =>
        /\ ~(ev'.entered /\ ev'.drained)
        /\ ev'.entered =>
             (record_daq_data' /\ (ev'.memptr_mid = 0) /\ (hist'.drains = hist.drains))
        /\ (record_daq_data /\ (ev'.t2 = LOW)) =>
             ((~record_daq_data') /\ (~ev'.entered) /\ (hist'.drains = hist.drains + 1))
        /\ (record_daq_data /\ (ev'.t2 = HIGH)) =>
             (record_daq_data' /\ (hist'.drains = hist.drains)) ]_vars

\* C13 witness: the trigger was high for one call of loop(), which entered
\* Recording, and the next call read it low and made the only drain so far
C13_Witness ==
  /\ hist.entries = 1
  /\ hist.drains = 1
  /\ hist.ticks >= 3
  /\ ev.start_rec /\ ev.drained /\ ev.created
  /\ ep.done /\ (ep.D <= SAMPLE_PERIOD_USEC)

\* C14 (as claimed): at the end of an episode record_daq_data is still true
\* while StoreDataSDCard runs and is cleared only after it has returned; so
\* when StoreDataSDCard, called at the end of an episode, never returns
\* (the no-card loop), record_daq_data is true.
C14_FlagClearedAfterDrain ==
  ((pc = "nocard") /\ ev.start_rec) => (record_daq_data = TRUE)

\* C15: a call of loop() that ends with record_daq_data false leaves psram
\* and memptr as they were, and so does every call that runs StoreDataSDCard;
\* psram changes only by the append of a sample, and memptr only by that
\* append or by the reset on entering Recording, both on calls that end with
\* record_daq_data true.
C15_BufferFrame ==
  [][ /\ (~record_daq_data') => ((psram' = psram) /\ (memptr' = memptr))
      /\ (hist'.drains > hist.drains) => ((psram' = psram) /\ (memptr' = memptr))
      /\ (psram' # psram) => (record_daq_data' /\ ev'.sampled)
      /\ (memptr' # memptr) => (record_daq_data' /\ (ev'.entered \/ ev'.sampled)) ]_vars

\* C15 witness: an episode that appended records has just ended with a
\* drain, and the cursor and the records are still where the episode left them
C15_Witness ==
  /\ ev.start_rec /\ ev.created
  /\ ~record_daq_data
  /\ hist.appends >= 2
  /\ memptr > 0
  /\ memptr = ev.memptr_before
  /\ IsPrefix(ep.text, dataFile.data)

\* C16 (as claimed): as long as micros() has not wrapped since boot, a call
\* of loop() in Recording, with a sample taken before, takes the next sample
\* exactly when 400 us or more have passed since that sample: two
\* consecutive samples are never less than 400 us apart, and the next one is
\* taken on the first Recording call at or after t + 400.
C16_SpacingWithoutClockWrap ==
  (Ticked /\ ev.rec_mid /\ ev.had_sample /\ ~hist.clock_wrapped) =>
    (ev.sampled <=> (ev.gap >= SAMPLE_PERIOD_USEC))

\* The offsets that sprintf stores to when it formats count characters at
\* offset at: the characters and the terminating 0
SprintfOffsets(at, count) == at..(at + count)

\* C17 (as claimed): every offset that the sprintf of an append stores to,
\* the one of the terminating 0 included, is an offset of psram.
C17_AppendInsideArena ==
  (Ticked /\ ev.sampled) => (SprintfOffsets(ev.memptr_mid, char_count) \subseteq Arena)

\* C18: with records of 39 bytes and the real capacity of 8*1024*1024
\* bytes, the first 86 * 2500 = 215000 appends of an episode each advance the
\* cursor by 39 and none of them takes it back to 0.
C18_DocumentedTimeFits ==
  /\ Len(NominalRecord) = 39
  /\ (hist.appends <= RecordSeconds * SAMPLE_RATE) =>
       ((hist.wraps = 0) /\ (memptr = 39 * hist.appends))

\* C18 witness: 215000 records appended, the cursor at 8385000 and never
\* taken back
C18_Witness ==
  /\ record_daq_data
  /\ hist.appends = 215000
  /\ hist.appends = RecordSeconds * SAMPLE_RATE
  /\ memptr = 8385000
  /\ hist.wraps = 0

\* What a Wire.read() returns when a byte was received
Byte == 0..255

\* C19 (as claimed): the value that read_S35770_Counter returns for a sample
\* is byte0*65536 + byte1*256 + byte2 when the three Wire.read() calls
\* delivered bytes, and is below 2^24 whatever they delivered, -1 included.
C19_CounterIs24Bit ==
  (Ticked /\ ev.sampled) =>
    /\ ev.count = read_S35770_Counter(ev.wire)
    /\ (\A i \in 1..3 : ev.wire[i] \in Byte) =>
         (ev.count = IntToU32(ev.wire[1] * 65536 + ev.wire[2] * 256 + ev.wire[3]))
    /\ LtU32(ev.count, IntToU32(256 * 65536))

=============================================================================
